---- MODULE Spec2Model ----
(***************************************************************************)
(* Model of BDDLBaseDomain (src/libero/libero/envs/bddl_base_domain.py):   *)
(* the goal-progress reward shaping (reward, _compute_dense_reward,        *)
(* _get_predicate_progress), the episode operations that drive it          *)
(* (_reset_internal, step), and the placement plan built from the initial  *)
(* state (_add_placement_initializer) and sampled at reset.                *)
(*                                                                         *)
(* Floats are fixed-point integers: One units are 1.0, so 1e-3 is          *)
(* One \div 1000 units.  A product a*b is (a*b) \div One and a quotient    *)
(* a/b is (a*One) \div b.  Joint coordinates and range tables are on a    *)
(* finer grid, JointOne units to 1.0, so that the 1e-6 threshold of the   *)
(* joint rules is a whole unit.  None and a missing attribute are the     *)
(* empty sequence, a present value v is <<v>>.                             *)
(***************************************************************************)
EXTENDS Integers, Sequences, FiniteSets, TLC

VARIABLES
    reward_scale,       \* self.reward_scale: <<>> (None) or <<s>>
    reward_shaping,     \* self.reward_shaping
    goal_state,         \* self.parsed_problem["goal_state"]: sequence of atoms
    previous_distance,  \* self.previous_distance: <<>> (no attribute) or <<d>>
    scene,              \* the simulated scene read through object_states_dict
    evals,              \* dense evaluations started since the last reset (capped)
    last,               \* the last call: its operation and outcome, the dense
                        \* evaluation inside it, previous_distance before it, and
                        \* whether it re-read the scene of the evaluation before it;
                        \* for a step also the done flags (the base class's, the
                        \* one returned)
    initial_state,      \* self.parsed_problem["initial_state"]: sequence of atoms
    placement_initializer,                          \* the samplers of each
    conditional_placement_initializer,              \* composite sampler, in
    conditional_placement_on_objects_initializer,   \* append order
    object_property_initializers,   \* self.object_property_initializers
    builds,             \* calls of _load_model so far (capped)
    reset_trace         \* what the samplers did in the last reset, in order

reward_vars == <<reward_scale, reward_shaping, goal_state, previous_distance, scene,
                 evals>>

placement_vars == <<initial_state, placement_initializer,
                    conditional_placement_initializer,
                    conditional_placement_on_objects_initializer,
                    object_property_initializers, builds, reset_trace>>

vars == <<reward_vars, last, placement_vars>>

(***************************************************************************)
(* Numbers                                                                 *)
(***************************************************************************)
One == 10000

MaxEvals == 2

\* 1e-3 (line 235)
Eps == One \div 1000

\* units of a joint coordinate (q_curr, the range tables) to 1.0
JointOne == 1000000

\* 1e-6 of a joint coordinate (lines 354, 362, 411, 418)
Tiny == JointOne \div 1000000

Abs(x) == IF x < 0 THEN -x ELSE x

Mul(a, b) == (a * b) \div One

\* the digits of (r * scale) \div b for 0 <= r < b, by long division
RECURSIVE LongDiv(_, _, _)
LongDiv(r, b, scale) ==
    IF scale = 1 THEN 0
    ELSE ((r * 10) \div b) * (scale \div 10) + LongDiv((r * 10) % b, b, scale \div 10)

\* a / b for b > 0: (a * One) \div b, computed without the wide product
Div(a, b) == (a \div b) * One + LongDiv(a % b, b, One)

SetMax(S) == CHOOSE m \in S : \A x \in S : x <= m

SetMin(S) == CHOOSE m \in S : \A x \in S : m <= x

RECURSIVE SqrtBetween(_, _, _)
SqrtBetween(n, lo, hi) ==
    IF lo >= hi THEN lo
    ELSE LET mid == (lo + hi + 1) \div 2
         IN IF mid * mid <= n THEN SqrtBetween(n, mid, hi)
                              ELSE SqrtBetween(n, lo, mid - 1)

\* x ** 0.5, rounded down to a whole unit
Sqrt(n) == SqrtBetween(n, 0, 4 * One)

\* np.clip(x, lo, hi)
np_clip(x, lo, hi) == IF x < lo THEN lo ELSE IF x > hi THEN hi ELSE x

Range(s) == {s[i] : i \in DOMAIN s}

(***************************************************************************)
(* Outcomes of a call: a returned value or a raised exception              *)
(***************************************************************************)
Return(v) == [tag |-> "return", val |-> v]

Raise(e) == [tag |-> e, val |-> 0]

(***************************************************************************)
(* Predicate names and str.lower()                                         *)
(***************************************************************************)
PredicateNames ==
    {"on", "On", "in", "open", "Open", "close", "turnon", "turnoff", "stack", "up"}

lower(name) ==
    CASE name = "On" -> "on"
      [] name = "Open" -> "open"
      [] OTHER -> name

(***************************************************************************)
(* _get_predicate_progress                                                 *)
(***************************************************************************)
\* eval_predicate_fn(name, *object states): the predicate's truth in the scene
eval_predicate_fn(state, sc) == sc.holds[state]

\* mutant: the on rule measures the euclidean distance, as the in rule does
on_progress_euclidean(pos1, pos2) ==
    LET dx == pos1[1] - pos2[1]
        dy == pos1[2] - pos2[2]
        dz == pos1[3] - pos2[3]
        horizontal_dist == Sqrt(dx * dx + dy * dy + dz * dz)
        normalized_horiz == One - Div(horizontal_dist, One)
    IN  IF normalized_horiz > 0 THEN normalized_horiz ELSE 0

\* lines 265-278: horizontal alignment only
on_progress(pos1, pos2) ==
    LET dx == pos1[1] - pos2[1]
        dy == pos1[2] - pos2[2]
        horizontal_dist == Sqrt(dx * dx + dy * dy)
        normalized_horiz == One - Div(horizontal_dist, One)
    IN  IF normalized_horiz > 0 THEN normalized_horiz ELSE 0

\* lines 280-291: euclidean distance
in_progress(pos1, pos2) ==
    LET dx == pos1[1] - pos2[1]
        dy == pos1[2] - pos2[2]
        dz == pos1[3] - pos2[3]
        dist == Sqrt(dx * dx + dy * dy + dz * dz)
        normalized_dist == One - Div(dist, One)
    IN  IF normalized_dist > 0 THEN normalized_dist ELSE 0

\* mutant: the final np.clip is left out
joint_range_progress_unclipped(q_curr, target_ranges, opposite_ranges) ==
    LET q_target_min_val == SetMin(Range(target_ranges))
        q_target_max_val == SetMax(Range(target_ranges))
        q_opp_min_val == SetMin(Range(opposite_ranges))
        q_opp_max_val == SetMax(Range(opposite_ranges))
    IN  IF q_target_max_val < q_opp_min_val
        THEN LET denominator == q_opp_max_val - q_target_max_val
             IN  IF denominator > Tiny
                 THEN Div(q_opp_max_val - q_curr, denominator)
                 ELSE 0
        ELSE IF q_target_min_val > q_opp_max_val
        THEN LET denominator == q_target_min_val - q_opp_max_val
             IN  IF denominator > Tiny
                 THEN Div(q_curr - q_opp_max_val, denominator)
                 ELSE 0
        ELSE 0

\* mutant: the increasing-q case reuses the numerator of the decreasing-q case
joint_range_progress_same_numerator(q_curr, target_ranges, opposite_ranges) ==
    LET q_target_min_val == SetMin(Range(target_ranges))
        q_target_max_val == SetMax(Range(target_ranges))
        q_opp_min_val == SetMin(Range(opposite_ranges))
        q_opp_max_val == SetMax(Range(opposite_ranges))
        current_progress ==
            IF q_target_max_val < q_opp_min_val
            THEN LET denominator == q_opp_max_val - q_target_max_val
                 IN  IF denominator > Tiny
                     THEN Div(q_opp_max_val - q_curr, denominator)
                     ELSE 0
            ELSE IF q_target_min_val > q_opp_max_val
            THEN LET denominator == q_target_min_val - q_opp_max_val
                 IN  IF denominator > Tiny
                     THEN Div(q_opp_max_val - q_curr, denominator)
                     ELSE 0
            ELSE 0
    IN  np_clip(current_progress, 0, One)

\* mutant: the decreasing-q case measures up to the far edge of the target range
joint_range_progress_far_edge(q_curr, target_ranges, opposite_ranges) ==
    LET q_target_min_val == SetMin(Range(target_ranges))
        q_target_max_val == SetMax(Range(target_ranges))
        q_opp_min_val == SetMin(Range(opposite_ranges))
        q_opp_max_val == SetMax(Range(opposite_ranges))
        current_progress ==
            IF q_target_max_val < q_opp_min_val
            THEN LET denominator == q_opp_max_val - q_target_min_val
                 IN  IF denominator > Tiny
                     THEN Div(q_opp_max_val - q_curr, denominator)
                     ELSE 0
            ELSE IF q_target_min_val > q_opp_max_val
            THEN LET denominator == q_target_min_val - q_opp_max_val
                 IN  IF denominator > Tiny
                     THEN Div(q_curr - q_opp_max_val, denominator)
                     ELSE 0
            ELSE 0
    IN  np_clip(current_progress, 0, One)

\* mutant: touching ranges count as ordered
joint_range_progress_touching(q_curr, target_ranges, opposite_ranges) ==
    LET q_target_min_val == SetMin(Range(target_ranges))
        q_target_max_val == SetMax(Range(target_ranges))
        q_opp_min_val == SetMin(Range(opposite_ranges))
        q_opp_max_val == SetMax(Range(opposite_ranges))
        current_progress ==
            IF q_target_max_val <= q_opp_min_val
            THEN LET denominator == q_opp_max_val - q_target_max_val
                 IN  IF denominator > Tiny
                     THEN Div(q_opp_max_val - q_curr, denominator)
                     ELSE 0
            ELSE IF q_target_min_val >= q_opp_max_val
            THEN LET denominator == q_target_min_val - q_opp_max_val
                 IN  IF denominator > Tiny
                     THEN Div(q_curr - q_opp_max_val, denominator)
                     ELSE 0
            ELSE 0
    IN  np_clip(current_progress, 0, One)

\* lines 342-365 and 400-421: progress of the first joint between the ranges
joint_range_progress(q_curr, target_ranges, opposite_ranges) ==
    LET q_target_min_val == SetMin(Range(target_ranges))
        q_target_max_val == SetMax(Range(target_ranges))
        q_opp_min_val == SetMin(Range(opposite_ranges))
        q_opp_max_val == SetMax(Range(opposite_ranges))
        current_progress ==
            IF q_target_max_val < q_opp_min_val
            THEN LET denominator == q_opp_max_val - q_target_max_val
                 IN  IF denominator > Tiny
                     THEN Div(q_opp_max_val - q_curr, denominator)
                     ELSE 0
            ELSE IF q_target_min_val > q_opp_max_val
            THEN LET denominator == q_target_min_val - q_opp_max_val
                 IN  IF denominator > Tiny
                     THEN Div(q_curr - q_opp_max_val, denominator)
                     ELSE 0
            ELSE 0
    IN  np_clip(current_progress, 0, One)

\* mutant: the ArticulatedObject class test is left out
articulated_progress_any_class(name, opposite, obj) ==
    LET target_key == "default_" \o name \o "_ranges"
        opposite_key == "default_" \o opposite \o "_ranges"
    IN  IF ~obj.is_ObjectState THEN 0
        ELSE IF obj.joint_states = <<>> THEN 0
        ELSE IF ~obj.has_object_properties
                \/ "articulation" \notin obj.object_properties_keys THEN 0
        ELSE IF target_key \notin obj.art_keys \/ opposite_key \notin obj.art_keys THEN 0
        ELSE joint_range_progress(obj.joint_states[1], obj.art_props[target_key],
                                  obj.art_props[opposite_key])

\* lines 310-340 and 368-398: the guards before the range computation
articulated_progress(name, opposite, obj) ==
    LET target_key == "default_" \o name \o "_ranges"
        opposite_key == "default_" \o opposite \o "_ranges"
    IN  IF ~obj.is_ObjectState \/ ~obj.is_ArticulatedObject THEN 0
        ELSE IF obj.joint_states = <<>> THEN 0
        ELSE IF ~obj.has_object_properties
                \/ "articulation" \notin obj.object_properties_keys THEN 0
        ELSE IF target_key \notin obj.art_keys \/ opposite_key \notin obj.art_keys THEN 0
        ELSE joint_range_progress(obj.joint_states[1], obj.art_props[target_key],
                                  obj.art_props[opposite_key])

\* mutant: the distance rules run before the satisfied test
binary_progress_rule_first(state, sc) ==
    LET predicate_fn_name == state[1]
        obj1 == sc.obj[state[2]]
        obj2 == sc.obj[state[3]]
    IN  IF lower(predicate_fn_name) = "on" THEN Return(on_progress(obj1.pos, obj2.pos))
        ELSE IF lower(predicate_fn_name) = "in" THEN Return(in_progress(obj1.pos, obj2.pos))
        ELSE IF eval_predicate_fn(state, sc) THEN Return(One)
        ELSE Raise("NotImplementedError")

\* lines 251-294: a binary atom
binary_progress(state, sc) ==
    LET predicate_fn_name == state[1]
        obj1 == sc.obj[state[2]]
        obj2 == sc.obj[state[3]]
    IN  IF eval_predicate_fn(state, sc) THEN Return(One)
        ELSE IF lower(predicate_fn_name) = "on" THEN Return(on_progress(obj1.pos, obj2.pos))
        ELSE IF lower(predicate_fn_name) = "in" THEN Return(in_progress(obj1.pos, obj2.pos))
        ELSE Raise("NotImplementedError")

\* mutant: an unknown unary name falls through to the initial progress 0.0
unary_progress_silent_zero(state, sc) ==
    LET predicate_fn_name_lower == lower(state[1])
        obj == sc.obj[state[2]]
    IN  IF eval_predicate_fn(state, sc) THEN Return(One)
        ELSE IF predicate_fn_name_lower \in {"open", "close"}
        THEN Return(articulated_progress(predicate_fn_name_lower,
                        IF predicate_fn_name_lower = "open" THEN "close" ELSE "open", obj))
        ELSE IF predicate_fn_name_lower \in {"turnon", "turnoff"}
        THEN Return(articulated_progress(predicate_fn_name_lower,
                        IF predicate_fn_name_lower = "turnon" THEN "turnoff" ELSE "turnon", obj))
        ELSE Return(0)

\* lines 296-423 and 427: a unary atom
unary_progress(state, sc) ==
    LET predicate_fn_name_lower == lower(state[1])
        obj == sc.obj[state[2]]
    IN  IF eval_predicate_fn(state, sc) THEN Return(One)
        ELSE IF predicate_fn_name_lower \in {"open", "close"}
        THEN Return(articulated_progress(predicate_fn_name_lower,
                        IF predicate_fn_name_lower = "open" THEN "close" ELSE "open", obj))
        ELSE IF predicate_fn_name_lower \in {"turnon", "turnoff"}
        THEN Return(articulated_progress(predicate_fn_name_lower,
                        IF predicate_fn_name_lower = "turnon" THEN "turnoff" ELSE "turnon", obj))
        ELSE Raise("NotImplementedError")

\* lines 251, 296, 424-425: dispatch on the length of the atom
get_predicate_progress(state, sc) ==
    IF Len(state) = 3 THEN binary_progress(state, sc)
    ELSE IF Len(state) = 2 THEN unary_progress(state, sc)
    ELSE Raise("NotImplementedError")

(***************************************************************************)
(* _compute_dense_reward and reward                                        *)
(***************************************************************************)
NoCall == [tag |-> "none", val |-> 0]

\* lines 184-185 and 230-231: reward *= self.reward_scale / 1.0, unless None
scale_reward(reward, scale) == IF scale # <<>> THEN Mul(reward, scale[1]) ELSE reward

\* mutant: the clip keeps only its upper bound
clip_reward_upper_only(reward) == IF reward > One THEN One ELSE reward

\* mutant: the clip keeps only its lower bound
clip_reward_lower_only(reward) == IF reward < 0 THEN 0 ELSE reward

\* line 234: np.clip(reward, 0.0, 1.0)
clip_reward(reward) == np_clip(reward, 0, One)

\* lines 235-236: values below 1e-3 become 0.0
denoise(reward) == IF Abs(reward) < Eps THEN 0 ELSE reward

\* lines 207-211: the progress of every goal atom, in order
goal_progress(gs, sc) == [i \in DOMAIN gs |-> get_predicate_progress(gs[i], sc)]

\* mutant: the best atom, not the worst, gives the distance
max_distance_of_best(progress) ==
    IF DOMAIN progress = {} THEN One
    ELSE SetMin({One - progress[i].val : i \in DOMAIN progress})

\* lines 210-215: the bottleneck distance, max(1 - progress)
max_distance(progress) ==
    IF DOMAIN progress = {} THEN One
    ELSE SetMax({One - progress[i].val : i \in DOMAIN progress})

\* lines 222-238: the reward of a later call, from the two distances
shaped_reward(previous, current_distance, scale) ==
    LET distance_diff == previous - current_distance
    IN  denoise(clip_reward(scale_reward(distance_diff, scale)))

\* mutant: a later call does not store the distance it computed
compute_dense_reward_keeps_first(gs, sc, prev, scale) ==
    IF gs = <<>> THEN [out |-> Return(0), prev |-> prev]
    ELSE LET progress == goal_progress(gs, sc)
         IN  IF \E i \in DOMAIN gs : progress[i].tag # "return"
             THEN [out |-> Raise("NotImplementedError"), prev |-> prev]
             ELSE LET current_distance == max_distance(progress)
                  IN  IF prev = <<>>
                      THEN [out |-> Return(0), prev |-> <<current_distance>>]
                      ELSE [out |-> Return(shaped_reward(prev[1], current_distance,
                                                         scale)),
                            prev |-> prev]

\* mutant: a later call stores the distance only when it rewarded progress
compute_dense_reward_stores_on_progress(gs, sc, prev, scale) ==
    IF gs = <<>> THEN [out |-> Return(0), prev |-> prev]
    ELSE LET progress == goal_progress(gs, sc)
         IN  IF \E i \in DOMAIN gs : progress[i].tag # "return"
             THEN [out |-> Raise("NotImplementedError"), prev |-> prev]
             ELSE LET current_distance == max_distance(progress)
                  IN  IF prev = <<>>
                      THEN [out |-> Return(0), prev |-> <<current_distance>>]
                      ELSE LET r == shaped_reward(prev[1], current_distance, scale)
                           IN  [out |-> Return(r),
                                prev |-> IF r > 0 THEN <<current_distance>> ELSE prev]

\* lines 198-238: the outcome and the previous_distance attribute it leaves
compute_dense_reward(gs, sc, prev, scale) ==
    IF gs = <<>> THEN [out |-> Return(0), prev |-> prev]
    ELSE LET progress == goal_progress(gs, sc)
         IN  IF \E i \in DOMAIN gs : progress[i].tag # "return"
             THEN [out |-> Raise("NotImplementedError"), prev |-> prev]
             ELSE LET current_distance == max_distance(progress)
                  IN  IF prev = <<>>
                      THEN [out |-> Return(0), prev |-> <<current_distance>>]
                      ELSE [out |-> Return(shaped_reward(prev[1], current_distance,
                                                         scale)),
                            prev |-> <<current_distance>>]

\* _check_success: the task's own success test of the scene
check_success(sc) == sc.success

\* mutant: the shaping branch is tested before the success branch
reward_shaping_first(sc, shaping, gs, prev, scale) ==
    IF shaping
    THEN LET d == compute_dense_reward(gs, sc, prev, scale)
         IN  IF d.out.tag = "return"
             THEN [out |-> Return(scale_reward(d.out.val, scale)), dense |-> d.out,
                   prev |-> d.prev]
             ELSE [out |-> d.out, dense |-> d.out, prev |-> d.prev]
    ELSE IF check_success(sc)
    THEN [out |-> Return(scale_reward(One, scale)), dense |-> NoCall, prev |-> prev]
    ELSE [out |-> Return(scale_reward(0, scale)), dense |-> NoCall, prev |-> prev]

\* mutant: with shaping the distance is evaluated and stored before the
\* success test
reward_evaluates_before_success(sc, shaping, gs, prev, scale) ==
    IF shaping
    THEN LET d == compute_dense_reward(gs, sc, prev, scale)
         IN  IF check_success(sc)
             THEN [out |-> Return(scale_reward(One, scale)), dense |-> NoCall,
                   prev |-> d.prev]
             ELSE IF d.out.tag = "return"
             THEN [out |-> Return(scale_reward(d.out.val, scale)), dense |-> d.out,
                   prev |-> d.prev]
             ELSE [out |-> d.out, dense |-> d.out, prev |-> d.prev]
    ELSE IF check_success(sc)
    THEN [out |-> Return(scale_reward(One, scale)), dense |-> NoCall, prev |-> prev]
    ELSE [out |-> Return(scale_reward(0, scale)), dense |-> NoCall, prev |-> prev]

\* lines 174-187: outcome, the dense evaluation made (if any), previous_distance left
reward(sc, shaping, gs, prev, scale) ==
    IF check_success(sc)
    THEN [out |-> Return(scale_reward(One, scale)), dense |-> NoCall, prev |-> prev]
    ELSE IF shaping
    THEN LET d == compute_dense_reward(gs, sc, prev, scale)
         IN  IF d.out.tag = "return"
             THEN [out |-> Return(scale_reward(d.out.val, scale)), dense |-> d.out,
                   prev |-> d.prev]
             ELSE [out |-> d.out, dense |-> d.out, prev |-> d.prev]
    ELSE [out |-> Return(scale_reward(0, scale)), dense |-> NoCall, prev |-> prev]

\* mutant: the done flag of the base class is kept when it is set
step_done_keeps_base(base_done, sc) == base_done \/ check_success(sc)

\* lines 1048-1049: the done flag of super().step() is replaced by the
\* success check of the scene after the step
step_done(base_done, sc) == check_success(sc)

\* mutant: the reset leaves the attribute in place
reset_keeps_previous_distance(prev) == prev

\* lines 975-977: delattr(self, 'previous_distance') when present
reset_previous_distance(prev) == <<>>

\* mutant: the distance is cleared only on the sampling path
reset_internal_clears_when_sampling(prev, deterministic_reset) ==
    [prev |-> IF deterministic_reset THEN prev ELSE reset_previous_distance(prev),
     sample |-> ~deterministic_reset]

\* lines 969-980: the distance is cleared, then the samplers run unless
\* deterministic_reset
reset_internal(prev, deterministic_reset) ==
    [prev |-> reset_previous_distance(prev), sample |-> ~deterministic_reset]

(***************************************************************************)
(* The scenes of the episode specification                                 *)
(***************************************************************************)
ObjectNames == {"cube", "plate", "microwave"}

RangeKeys == {"default_open_ranges", "default_close_ranges",
              "default_turnon_ranges", "default_turnoff_ranges"}

ArtProps(open_ranges, close_ranges) ==
    [default_open_ranges |-> open_ranges, default_close_ranges |-> close_ranges,
     default_turnon_ranges |-> open_ranges, default_turnoff_ranges |-> close_ranges]

\* a movable rigid object at pos: no joints, no articulation
RigidObject(pos) ==
    [pos |-> pos, joint_states |-> <<>>, is_ObjectState |-> TRUE,
     is_ArticulatedObject |-> FALSE, has_object_properties |-> FALSE,
     object_properties_keys |-> {}, art_keys |-> {},
     art_props |-> ArtProps(<<0, 0>>, <<0, 0>>)]

\* an articulated object with one joint at q and all four range tables
ArticulatedObject(pos, q, open_ranges, close_ranges) ==
    [pos |-> pos, joint_states |-> <<q>>, is_ObjectState |-> TRUE,
     is_ArticulatedObject |-> TRUE, has_object_properties |-> TRUE,
     object_properties_keys |-> {"articulation"}, art_keys |-> RangeKeys,
     art_props |-> ArtProps(open_ranges, close_ranges)]

PlatePos == <<0, 0, 0>>

\* 0.05 m, 0.5 m (3-4-5 triangle, raised 0.2 m) and 0.5006 m from the plate
CubePositions ==
    {<<One \div 20, 0, 0>>,
     <<(3 * One) \div 10, (4 * One) \div 10, One \div 5>>,
     <<One \div 2 + 6, 0, 0>>}

\* where the placement samplers put the cube at reset
ResetCubePositions == {<<(3 * One) \div 10, (4 * One) \div 10, One \div 5>>,
                       <<One \div 2 + 6, 0, 0>>}

MicrowaveOpenRanges == <<-2 * JointOne, -JointOne>>

MicrowaveCloseRanges == <<-(JointOne \div 200), 0>>

JointPositions == {0, -((3 * JointOne) \div 4)}

\* the joint value the property sampler draws at reset (close range)
ResetJointPositions == {0}

\* the goals: empty, one atom, two atoms, an atom without a progress rule
Goals ==
    { <<>>,
      << <<"on", "cube", "plate">> >>,
      << <<"on", "cube", "plate">>, <<"open", "microwave">> >>,
      << <<"stack", "cube", "plate">> >> }

\* the configured reward scales: positive floats (None is <<>>)
ScaleValues == {One \div 2, One, 2 * One}

\* a scene: the object states, the evaluator's verdict on every goal atom
\* (holds) and the task's success verdict; both verdicts are free inputs
SceneOf(p, q, h, s) ==
    [obj |-> [n \in ObjectNames |->
                CASE n = "cube" -> RigidObject(p)
                  [] n = "plate" -> RigidObject(PlatePos)
                  [] OTHER -> ArticulatedObject(PlatePos, q, MicrowaveOpenRanges,
                                                MicrowaveCloseRanges)],
     holds |-> h, success |-> s]

\* the scenes a simulation step can lead to
Scenes(gs) ==
    { SceneOf(p, q, h, s) :
        p \in CubePositions, q \in JointPositions,
        h \in [Range(gs) -> BOOLEAN], s \in BOOLEAN }

\* the scenes a reset can produce
ResetScenes(gs) ==
    { SceneOf(p, q, h, s) :
        p \in ResetCubePositions, q \in ResetJointPositions,
        h \in [Range(gs) -> BOOLEAN], s \in BOOLEAN }

(***************************************************************************)
(* The episode: construction, reset, step, and direct reward calls         *)
(***************************************************************************)
\* the task has no initial_state atoms, so no sampler is ever appended
NoPlacement ==
    /\ initial_state = <<>>
    /\ placement_initializer = <<>>
    /\ conditional_placement_initializer = <<>>
    /\ conditional_placement_on_objects_initializer = <<>>
    /\ object_property_initializers = <<>>
    /\ builds = 1
    /\ reset_trace = <<>>

Bump(n) == IF n < MaxEvals THEN n + 1 ELSE MaxEvals

Called(op, out, dense, before, unchanged) ==
    [op |-> op, out |-> out, dense |-> dense, before |-> before, unchanged |-> unchanged,
     done |-> <<>>]

Init ==
    /\ reward_scale \in {<<>>} \cup {<<s>> : s \in ScaleValues}
    /\ reward_shaping \in BOOLEAN
    /\ goal_state \in Goals
    /\ previous_distance = <<>>
    /\ scene \in ResetScenes(goal_state)
    /\ evals = 0
    /\ last = Called("init", NoCall, NoCall, <<>>, FALSE)
    /\ NoPlacement

\* reset(): _reset_internal clears the distance; the samplers place the
\* scene, or with deterministic_reset the stored initial scene is restored
Reset ==
    \E deterministic_reset \in BOOLEAN :
        \E r \in {reset_internal(previous_distance, deterministic_reset)} :
            /\ previous_distance' = r.prev
            /\ scene' \in ResetScenes(goal_state)
            /\ evals' = 0
            /\ last' = Called(IF r.sample THEN "reset" ELSE "deterministic_reset",
                              NoCall, NoCall, previous_distance, FALSE)
            /\ UNCHANGED <<reward_scale, reward_shaping, goal_state, placement_vars>>

\* step(action): the simulation advances, super().step() calls reward() on
\* the new scene and returns its own done flag (horizon reached or not),
\* which step() replaces
Step ==
    \E sc \in Scenes(goal_state) :
        \E r \in {reward(sc, reward_shaping, goal_state, previous_distance, reward_scale)},
           base_done \in BOOLEAN :
            /\ scene' = sc
            /\ previous_distance' = r.prev
            /\ evals' = IF r.dense.tag = "none" THEN evals ELSE Bump(evals)
            /\ last' = [Called("step", r.out, r.dense, previous_distance,
                               last.dense.tag = "return" /\ sc = scene)
                           EXCEPT !.done = <<[base |-> base_done,
                                              returned |-> step_done(base_done, sc)]>>]
            /\ UNCHANGED <<reward_scale, reward_shaping, goal_state, placement_vars>>

\* reward() called on the current scene
Reward ==
    \E r \in {reward(scene, reward_shaping, goal_state, previous_distance, reward_scale)} :
        /\ previous_distance' = r.prev
        /\ evals' = IF r.dense.tag = "none" THEN evals ELSE Bump(evals)
        /\ last' = Called("reward", r.out, r.dense, previous_distance,
                          last.dense.tag = "return")
        /\ UNCHANGED <<reward_scale, reward_shaping, goal_state, scene, placement_vars>>

\* _compute_dense_reward() called on the current scene
ComputeDenseReward ==
    \E d \in {compute_dense_reward(goal_state, scene, previous_distance, reward_scale)} :
        /\ previous_distance' = d.prev
        /\ evals' = Bump(evals)
        /\ last' = Called("dense", d.out, d.out, previous_distance,
                          last.dense.tag = "return")
        /\ UNCHANGED <<reward_scale, reward_shaping, goal_state, scene, placement_vars>>

Next == Reset \/ Step \/ Reward \/ ComputeDenseReward

Spec == Init /\ [][Next]_vars

(***************************************************************************)
(* Claims about the episode (specification Spec)                           *)
(***************************************************************************)
\* the goal distance of a scene, as line 215 computes it
GoalDistance(gs, sc) == max_distance(goal_progress(gs, sc))

\* the last operation made a dense evaluation that returned a value
DenseReturned == last.dense.tag = "return"

\* the last operation was reward() (directly or inside step) and returned
RewardReturned == last.op \in {"step", "reward"} /\ last.out.tag = "return"

\* the last dense evaluation was the first one since the reset
FirstEvaluation == evals = 1 /\ DenseReturned

C2_RegressionYieldsZero ==
    DenseReturned =>
        /\ last.dense.val >= 0
        /\ (last.before # <<>> /\ goal_state # <<>>
            /\ GoalDistance(goal_state, scene) > last.before[1]) => last.dense.val = 0

\* C2 witness: the distance went up by 0.75 and the evaluation returned 0.0
C2_Witness ==
    /\ DenseReturned
    /\ last.before # <<>>
    /\ goal_state # <<>>
    /\ GoalDistance(goal_state, scene) - last.before[1] = (3 * One) \div 4
    /\ last.dense.val = 0

\* C3: when the success check is true, reward() returns 1.0 * reward_scale
\* (1.0 when the scale is None), whatever reward_shaping and
\* previous_distance are
C3_SuccessRewardIsScale ==
    (last.op \in {"step", "reward"} /\ check_success(scene)) =>
        /\ last.out.tag = "return"
        /\ last.out.val = IF reward_scale = <<>> THEN One ELSE reward_scale[1]

\* C3 witness: success on the first step after a reset, shaping enabled,
\* scale 2.0
C3_Witness ==
    /\ last.op = "step"
    /\ check_success(scene)
    /\ reward_shaping
    /\ evals = 0
    /\ reward_scale = <<2 * One>>
    /\ last.out.val = 2 * One

\* C4 as stated: without success and with shaping, the dense evaluation
\* returns denoise(clip(previous - current, 0, 1)) with no scale in it, and
\* reward() returns that value times the scale
C4_ScaleAppliedOnce ==
    (RewardReturned /\ ~check_success(scene) /\ reward_shaping /\ DenseReturned
     /\ last.before # <<>> /\ goal_state # <<>> /\ reward_scale # <<>>) =>
        LET shaped_value ==
                denoise(np_clip(last.before[1] - GoalDistance(goal_state, scene), 0, One))
        IN  /\ last.dense.val = shaped_value
            /\ last.out.val = Mul(shaped_value, reward_scale[1])

\* C5: every value reward() returns lies in [0, scale], and is exactly
\* 1.0 * scale when the success check holds
C5_RewardWithinScale ==
    (RewardReturned /\ reward_scale # <<>>) =>
        /\ 0 <= last.out.val
        /\ last.out.val <= reward_scale[1]
        /\ check_success(scene) => last.out.val = reward_scale[1]

\* C5 witness: a shaped reward clipped at 1.0 and returned as the whole
\* scale 2.0, without success
C5_Witness ==
    /\ RewardReturned
    /\ ~check_success(scene)
    /\ reward_scale = <<2 * One>>
    /\ last.dense = Return(One)
    /\ last.out.val = 2 * One

\* C9: a dense evaluation that re-reads the unchanged scene of the dense
\* evaluation right before it returns 0.0
C9_UnchangedSceneYieldsZero ==
    (DenseReturned /\ last.unchanged) => last.dense.val = 0

\* C9 witness: a later evaluation of an episode re-read an unchanged scene,
\* with a non-empty goal at distance 0.25, and returned 0.0
C9_Witness ==
    /\ DenseReturned
    /\ last.unchanged
    /\ evals = MaxEvals
    /\ goal_state # <<>>
    /\ last.before = <<One \div 4>>
    /\ previous_distance = <<One \div 4>>
    /\ last.dense.val = 0

\* C10 as stated: when the goal distance decreased by less than 1e-3 since
\* the evaluation before, the dense evaluation returns exactly 0.0, for
\* every reward scale
C10_SmallDecreaseYieldsZero ==
    (DenseReturned /\ last.before # <<>> /\ goal_state # <<>>
     /\ last.before[1] - GoalDistance(goal_state, scene) > 0
     /\ last.before[1] - GoalDistance(goal_state, scene) < Eps) => last.dense.val = 0

\* the horizontal (xy) distance of two positions
HorizontalDistance(pos1, pos2) ==
    Sqrt((pos1[1] - pos2[1]) * (pos1[1] - pos2[1])
         + (pos1[2] - pos2[2]) * (pos1[2] - pos2[2]))

\* the horizontal distance from the cube to the plate in a scene
CubeToPlate(sc) == HorizontalDistance(sc.obj["cube"].pos, sc.obj["plate"].pos)

OnCubePlate == <<"on", "cube", "plate">>

\* C12: with the single goal atom on(cube, plate) unsatisfied and scale
\* 1.0, a dense evaluation leaves the distance 1 - max(0, 1 - d) where d is
\* the horizontal distance alone; and when the evaluation before it read
\* the scene at horizontal distance d1 and this one reads d2, both at most
\* 1 m and d1 - d2 >= 1e-3, it returns d1 - d2
C12_OnRewardIsHorizontalApproach ==
    [][ (/\ goal_state = <<OnCubePlate>>
         /\ reward_scale = <<One>>
         /\ last'.dense.tag = "return"
         /\ ~scene'.holds[OnCubePlate])
        => LET d1 == CubeToPlate(scene)
               d2 == CubeToPlate(scene')
               progress == IF One - d2 > 0 THEN One - d2 ELSE 0
           IN  /\ previous_distance' = <<One - progress>>
               /\ (/\ DenseReturned
                   /\ ~scene.holds[OnCubePlate]
                   /\ d1 <= One /\ d2 <= One /\ d1 - d2 >= Eps)
                  => last'.dense.val = d1 - d2 ]_vars

\* C12 witness: the cube was 0.5 m from the plate (only the raised
\* position is) at the evaluation before, is now 0.05 m from it at the
\* height of the plate, and the evaluation returned 0.45
C12_Witness ==
    /\ DenseReturned
    /\ goal_state = <<OnCubePlate>>
    /\ reward_scale = <<One>>
    /\ ~scene.holds[OnCubePlate]
    /\ last.before = <<One \div 2>>
    /\ scene.obj["cube"].pos = <<One \div 20, 0, 0>>
    /\ previous_distance = <<One \div 20>>
    /\ last.dense.val = (45 * One) \div 100

\* C13: after every reset, deterministic or not, previous_distance is
\* unset; it stays unset until a dense evaluation, and the first dense
\* evaluation after the reset finds no previous distance
C13_ResetClearsDistance ==
    /\ last.op \in {"reset", "deterministic_reset"} => previous_distance = <<>>
    /\ evals = 0 => previous_distance = <<>>
    /\ FirstEvaluation => last.before = <<>>

\* C13 witness: a deterministic reset found a stored distance and left
\* none
C13_Witness ==
    /\ last.op = "deterministic_reset"
    /\ last.before # <<>>
    /\ previous_distance = <<>>

\* C16: after a dense evaluation of a non-empty goal the stored distance
\* is the largest 1 - progress over the goal atoms; if it equals the
\* distance stored before, the evaluation returned 0.0, and if the
\* evaluation returned a positive reward it is below the distance before
C16_BottleneckAggregation ==
    (DenseReturned /\ goal_state # <<>>) =>
        LET distance(i) == One - get_predicate_progress(goal_state[i], scene).val
        IN  \E worst \in DOMAIN goal_state :
                /\ \A i \in DOMAIN goal_state : distance(i) <= distance(worst)
                /\ previous_distance = <<distance(worst)>>
                /\ last.before # <<>> =>
                    /\ distance(worst) = last.before[1] => last.dense.val = 0
                    /\ last.dense.val > 0 => distance(worst) < last.before[1]

\* C16 witness: with the microwave shut (distance 1.0, the worst atom)
\* before and after, the cube is now 0.05 m from the plate, where no reset
\* puts it; the stored distance stayed 1.0 and the evaluation returned 0.0
C16_Witness ==
    /\ DenseReturned
    /\ goal_state = <<OnCubePlate, <<"open", "microwave">> >>
    /\ \A a \in Range(goal_state) : ~scene.holds[a]
    /\ scene.obj["cube"].pos = <<One \div 20, 0, 0>>
    /\ scene.obj["microwave"].joint_states = <<0>>
    /\ last.before = <<One>>
    /\ previous_distance = <<One>>
    /\ last.dense.val = 0

(***************************************************************************)
(* _get_predicate_progress on its own: one atom over a range of scenes     *)
(***************************************************************************)
ProgressAtoms ==
    {<<n>> : n \in PredicateNames}
    \cup {<<n, "microwave">> : n \in PredicateNames}
    \cup {<<n, "cube", "plate">> : n \in PredicateNames}
    \cup {<<n, "cube", "plate", "microwave">> : n \in PredicateNames}

\* on the plate, beside it, exactly 1 m away, beyond 1 m, above it
ProgressCubePositions ==
    {<<0, 0, 0>>, <<(3 * One) \div 10, (4 * One) \div 10, One \div 5>>,
     <<One, 0, 0>>, <<(3 * One) \div 2, 0, 0>>, <<-(One \div 2), 0, One>>,
     <<0, 0, One \div 2>>}

\* range ends 1.0 apart, and two ends only 1e-6 apart (0 and Tiny)
RangeValues == {-2 * JointOne, -JointOne, 0, Tiny, JointOne}

RangeTables == {<<a, b>> : a, b \in RangeValues}

ProgressJointPositions ==
    {-2 * JointOne, -((3 * JointOne) \div 2), -JointOne, -(JointOne \div 2), 0,
     JointOne \div 2, JointOne, 2 * JointOne}

BaseMicrowave ==
    ArticulatedObject(PlatePos, -(JointOne \div 2), MicrowaveOpenRanges, MicrowaveCloseRanges)

\* articulated objects over every joint position and pair of range tables,
\* and the objects the guards of lines 313-337 and 371-395 turn away
MicrowaveVariants ==
    {ArticulatedObject(PlatePos, q, o, c) :
        q \in ProgressJointPositions, o \in RangeTables, c \in RangeTables}
    \cup {[BaseMicrowave EXCEPT !.is_ObjectState = FALSE],
          [BaseMicrowave EXCEPT !.is_ArticulatedObject = FALSE],
          [BaseMicrowave EXCEPT !.joint_states = <<>>],
          [BaseMicrowave EXCEPT !.has_object_properties = FALSE],
          [BaseMicrowave EXCEPT !.object_properties_keys = {}]}
    \cup {[BaseMicrowave EXCEPT !.art_keys = RangeKeys \ {k}] : k \in RangeKeys}

ProgressSceneOf(cube, microwave, atom, h) ==
    [obj |-> [n \in ObjectNames |->
                CASE n = "cube" -> cube
                  [] n = "plate" -> RigidObject(PlatePos)
                  [] OTHER -> microwave],
     holds |-> [a \in {atom} |-> h], success |-> FALSE]

ProgressScenes(atom) ==
    IF Len(atom) = 3
    THEN {ProgressSceneOf(RigidObject(p), BaseMicrowave, atom, h) :
            p \in ProgressCubePositions, h \in BOOLEAN}
    ELSE IF Len(atom) = 2
    THEN {ProgressSceneOf(RigidObject(PlatePos), m, atom, h) :
            m \in MicrowaveVariants, h \in BOOLEAN}
    ELSE {ProgressSceneOf(RigidObject(PlatePos), BaseMicrowave, atom, h) : h \in BOOLEAN}

ProgressInit ==
    /\ reward_scale = <<One>>
    /\ reward_shaping = TRUE
    /\ previous_distance = <<>>
    /\ evals = 0
    /\ last = Called("init", NoCall, NoCall, <<>>, FALSE)
    /\ NoPlacement
    /\ \E atom \in ProgressAtoms :
        /\ goal_state = <<atom>>
        /\ scene \in ProgressScenes(atom)

\* _get_predicate_progress(state) on the atom, reading the scene
GetPredicateProgress ==
    /\ last' = Called("progress", get_predicate_progress(goal_state[1], scene), NoCall,
                      <<>>, FALSE)
    /\ UNCHANGED <<reward_vars, placement_vars>>

ProgressNext == GetPredicateProgress

ProgressSpec == ProgressInit /\ [][ProgressNext]_vars

(***************************************************************************)
(* A joint atom while the simulation moves the joint                       *)
(***************************************************************************)
JointAtoms == {<<n, "microwave">> : n \in {"open", "close", "turnon", "turnoff"}}

JointInit ==
    /\ reward_scale = <<One>>
    /\ reward_shaping = TRUE
    /\ previous_distance = <<>>
    /\ evals = 0
    /\ last = Called("init", NoCall, NoCall, <<>>, FALSE)
    /\ NoPlacement
    /\ \E atom \in JointAtoms :
        /\ goal_state = <<atom>>
        /\ scene \in ProgressScenes(atom)

\* the simulation moves the first joint of the object of a unary atom, the
\* evaluator gives its verdict on the new scene, and _get_predicate_progress
\* is called before and after the move
MoveJoint ==
    /\ Len(goal_state[1]) = 2
    /\ scene.obj[goal_state[1][2]].joint_states # <<>>
    /\ \E before \in {get_predicate_progress(goal_state[1], scene)} :
        \E q \in ProgressJointPositions, h \in BOOLEAN :
            \E sc \in {[scene EXCEPT !.obj[goal_state[1][2]].joint_states = <<q>>,
                                      !.holds[goal_state[1]] = h]} :
                /\ scene' = sc
                /\ last' = Called("move", get_predicate_progress(goal_state[1], sc),
                                  NoCall, <<before>>, FALSE)
    /\ UNCHANGED <<reward_scale, reward_shaping, goal_state, previous_distance, evals,
                   placement_vars>>

JointNext == MoveJoint

JointSpec == JointInit /\ [][JointNext]_vars

(***************************************************************************)
(* Claims about _get_predicate_progress (specification ProgressSpec)       *)
(***************************************************************************)
\* the atom whose progress was computed
TheAtom == goal_state[1]

ProgressComputed == last.op = "progress"

\* (name, arity) has a progress rule: on/in with two arguments,
\* open/close/turnon/turnoff with one
HasProgressRule(state) ==
    \/ Len(state) = 3 /\ lower(state[1]) \in {"on", "in"}
    \/ Len(state) = 2 /\ lower(state[1]) \in {"open", "close", "turnon", "turnoff"}

\* C6: a unary or binary atom the evaluator reports true has progress
\* exactly 1.0, whatever the positions, joints and range tables are
C6_SatisfiedAtomHasProgressOne ==
    (ProgressComputed /\ Len(TheAtom) \in {2, 3} /\ scene.holds[TheAtom]) =>
        last.out = Return(One)

\* C6 witness: a satisfied on-atom whose horizontal distance alone would
\* give progress 0.0 got progress 1.0
C6_Witness ==
    /\ ProgressComputed
    /\ TheAtom = <<"on", "cube", "plate">>
    /\ scene.holds[TheAtom]
    /\ on_progress(scene.obj["cube"].pos, scene.obj["plate"].pos) = 0
    /\ last.out = Return(One)

\* C7: for every atom with a progress rule, the call returns a progress
\* in [0, 1]
C7_ProgressWithinUnitInterval ==
    (ProgressComputed /\ HasProgressRule(TheAtom)) =>
        /\ last.out.tag = "return"
        /\ 0 <= last.out.val
        /\ last.out.val <= One

\* C7 witness: an unsatisfied open-atom whose joint, past the edge of the
\* target range, would score 2.0 before the clip, returned 1.0
C7_Witness ==
    /\ ProgressComputed
    /\ TheAtom = <<"open", "microwave">>
    /\ ~scene.holds[TheAtom]
    /\ scene.obj["microwave"].joint_states = <<-2 * JointOne>>
    /\ scene.obj["microwave"].art_keys = RangeKeys
    /\ scene.obj["microwave"].art_props["default_open_ranges"]
            = <<-2 * JointOne, -JointOne>>
    /\ scene.obj["microwave"].art_props["default_close_ranges"] = <<0, 0>>
    /\ last.out = Return(One)

\* C8 as stated: an atom without a progress rule always fails with the
\* unsupported-predicate error
C8_NoRuleAlwaysRaises ==
    (ProgressComputed /\ ~HasProgressRule(TheAtom)) =>
        last.out.tag = "NotImplementedError"

\* C8 amended: an atom without a progress rule fails with the
\* unsupported-predicate error, except that a unary or binary atom the
\* evaluator reports true returns 1.0
C8_NoRuleRaisesUnlessSatisfied ==
    (ProgressComputed /\ ~HasProgressRule(TheAtom)) =>
        IF Len(TheAtom) \in {2, 3} /\ scene.holds[TheAtom]
        THEN last.out = Return(One)
        ELSE last.out.tag = "NotImplementedError"

\* C8 witness: an unsatisfied unary atom with an unknown name raised
C8_Witness ==
    /\ ProgressComputed
    /\ TheAtom = <<"up", "microwave">>
    /\ ~scene.holds[TheAtom]
    /\ last.out.tag = "NotImplementedError"

(***************************************************************************)
(* Claims about the joint rules (specifications ProgressSpec, JointSpec)   *)
(***************************************************************************)
\* the range tables of a joint predicate name: its own table and the
\* table of the opposite predicate
TargetKey(name) ==
    CASE name = "open" -> "default_open_ranges"
      [] name = "close" -> "default_close_ranges"
      [] name = "turnon" -> "default_turnon_ranges"
      [] OTHER -> "default_turnoff_ranges"

OppositeKey(name) ==
    CASE name = "open" -> "default_close_ranges"
      [] name = "close" -> "default_open_ranges"
      [] name = "turnon" -> "default_turnoff_ranges"
      [] OTHER -> "default_turnon_ranges"

IsJointAtom(state) ==
    Len(state) = 2 /\ lower(state[1]) \in {"open", "close", "turnon", "turnoff"}

\* obj is an articulated object with a first joint, articulation
\* properties and both range tables of name
IsArticulated(obj, name) ==
    /\ obj.is_ObjectState
    /\ obj.is_ArticulatedObject
    /\ obj.joint_states # <<>>
    /\ obj.has_object_properties
    /\ "articulation" \in obj.object_properties_keys
    /\ TargetKey(name) \in obj.art_keys
    /\ OppositeKey(name) \in obj.art_keys

\* max(target) < min(opposite): the target is reached by decreasing q
TargetBelow(target, opposite) == SetMax(Range(target)) < SetMin(Range(opposite))

\* min(target) > max(opposite): the target is reached by increasing q
TargetAbove(target, opposite) == SetMin(Range(target)) > SetMax(Range(opposite))

\* clamp(n / d, 0, 1) for d > 0
ClampedRatio(n, d) == IF n <= 0 THEN 0 ELSE IF n >= d THEN One ELSE Div(n, d)

\* the object and the tables of the atom whose progress was computed
TheObject == scene.obj[TheAtom[2]]

TheTarget == TheObject.art_props[TargetKey(lower(TheAtom[1]))]

TheOpposite == TheObject.art_props[OppositeKey(lower(TheAtom[1]))]

\* an unsatisfied open/close/turnon/turnoff atom had its progress computed
UnsatisfiedJointAtom ==
    ProgressComputed /\ IsJointAtom(TheAtom) /\ ~scene.holds[TheAtom]

\* the open/close atom a turnon/turnoff atom corresponds to
OpenCloseTwin(state) ==
    <<IF lower(state[1]) = "turnon" THEN "open" ELSE "close", state[2]>>

\* C11: for an open atom over ordered (non-overlapping) tables, a move of
\* the joint toward the target range (down when the target lies below the
\* opposite range, up when it lies above) during which the evaluator does
\* not go back from true to false never lowers the progress
C11_OpenProgressMonotone ==
    [][ (/\ last'.op = "move"
         /\ lower(goal_state[1][1]) = "open"
         /\ IsArticulated(scene.obj["microwave"], "open")
         /\ (scene.holds[goal_state[1]] => scene'.holds[goal_state[1]])
         /\ LET target == scene.obj["microwave"].art_props["default_open_ranges"]
                opposite == scene.obj["microwave"].art_props["default_close_ranges"]
                q_from == scene.obj["microwave"].joint_states[1]
                q_to == scene'.obj["microwave"].joint_states[1]
            IN  \/ TargetBelow(target, opposite) /\ q_to <= q_from
                \/ TargetAbove(target, opposite) /\ q_to >= q_from)
        => (/\ last'.before[1].tag = "return"
            /\ last'.out.tag = "return"
            /\ last'.before[1].val <= last'.out.val) ]_vars

\* C11 witness: in the increasing-q configuration the joint moved from
\* halfway (progress 0.5) into the open range, where the evaluator reports
\* true, and the progress rose to 1.0
C11_Witness ==
    /\ last.op = "move"
    /\ TheAtom = <<"open", "microwave">>
    /\ IsArticulated(TheObject, "open")
    /\ TheTarget = <<JointOne, JointOne>>
    /\ TheOpposite = <<-JointOne, 0>>
    /\ TheObject.joint_states = <<JointOne>>
    /\ scene.holds[TheAtom]
    /\ last.before = <<Return(One \div 2)>>
    /\ last.out = Return(One)

\* C17 as stated: for an unsatisfied joint atom on an articulated object,
\* progress is clamp((max(opp) - q) / (max(opp) - max(target)), 0, 1) when
\* max(target) < min(opp), and clamp((q - max(opp)) / (min(target) -
\* max(opp)), 0, 1) when min(target) > max(opp); turnon/turnoff give what
\* open/close give for the same tables and q
C17_JointProgressFormula ==
    (UnsatisfiedJointAtom /\ IsArticulated(TheObject, lower(TheAtom[1]))) =>
        LET q == TheObject.joint_states[1]
            t_min == SetMin(Range(TheTarget))
            t_max == SetMax(Range(TheTarget))
            o_max == SetMax(Range(TheOpposite))
        IN  /\ TargetBelow(TheTarget, TheOpposite) =>
                last.out = Return(ClampedRatio(o_max - q, o_max - t_max))
            /\ TargetAbove(TheTarget, TheOpposite) =>
                last.out = Return(ClampedRatio(q - o_max, t_min - o_max))
            /\ (/\ lower(TheAtom[1]) \in {"turnon", "turnoff"}
                /\ IsArticulated(TheObject, OpenCloseTwin(TheAtom)[1])
                /\ TheObject.art_props[TargetKey(OpenCloseTwin(TheAtom)[1])] = TheTarget
                /\ TheObject.art_props[OppositeKey(OpenCloseTwin(TheAtom)[1])]
                       = TheOpposite) =>
                last.out = unary_progress(OpenCloseTwin(TheAtom),
                               [scene EXCEPT !.holds =
                                   [a \in {OpenCloseTwin(TheAtom)} |-> FALSE]])

\* C17 amended: the two formulas hold when their denominator exceeds 1e-6;
\* when the denominator is 1e-6 or less the progress is 0.0; turnon/turnoff
\* give what open/close give for the same tables and q
C17_JointProgressFormulaAboveThreshold ==
    (UnsatisfiedJointAtom /\ IsArticulated(TheObject, lower(TheAtom[1]))) =>
        LET q == TheObject.joint_states[1]
            t_min == SetMin(Range(TheTarget))
            t_max == SetMax(Range(TheTarget))
            o_max == SetMax(Range(TheOpposite))
        IN  /\ TargetBelow(TheTarget, TheOpposite) =>
                last.out = Return(IF o_max - t_max > Tiny
                                  THEN ClampedRatio(o_max - q, o_max - t_max) ELSE 0)
            /\ TargetAbove(TheTarget, TheOpposite) =>
                last.out = Return(IF t_min - o_max > Tiny
                                  THEN ClampedRatio(q - o_max, t_min - o_max) ELSE 0)
            /\ (/\ lower(TheAtom[1]) \in {"turnon", "turnoff"}
                /\ IsArticulated(TheObject, OpenCloseTwin(TheAtom)[1])
                /\ TheObject.art_props[TargetKey(OpenCloseTwin(TheAtom)[1])] = TheTarget
                /\ TheObject.art_props[OppositeKey(OpenCloseTwin(TheAtom)[1])]
                       = TheOpposite) =>
                last.out = unary_progress(OpenCloseTwin(TheAtom),
                               [scene EXCEPT !.holds =
                                   [a \in {OpenCloseTwin(TheAtom)} |-> FALSE]])

\* C17 witness: an unsatisfied turnon atom in the decreasing-q
\* configuration, a quarter of the way from max(opposite) to max(target),
\* got progress 0.25
C17_Witness ==
    /\ UnsatisfiedJointAtom
    /\ TheAtom = <<"turnon", "microwave">>
    /\ IsArticulated(TheObject, "turnon")
    /\ TheTarget = <<-2 * JointOne, -JointOne>>
    /\ TheOpposite = <<0, JointOne>>
    /\ TheObject.joint_states = <<JointOne \div 2>>
    /\ last.out = Return(One \div 4)

\* C18: for an unsatisfied joint atom on an articulated object whose
\* target and opposite ranges overlap or touch, progress is 0.0 for every
\* q; a nonzero progress of an unsatisfied joint atom occurs only on an
\* articulated object in one of the two strictly ordered configurations
C18_UnorderedRangesYieldZero ==
    UnsatisfiedJointAtom =>
        /\ (/\ IsArticulated(TheObject, lower(TheAtom[1]))
            /\ ~TargetBelow(TheTarget, TheOpposite)
            /\ ~TargetAbove(TheTarget, TheOpposite)) => last.out = Return(0)
        /\ (last.out.tag = "return" /\ last.out.val # 0) =>
            /\ IsArticulated(TheObject, lower(TheAtom[1]))
            /\ TargetBelow(TheTarget, TheOpposite) \/ TargetAbove(TheTarget, TheOpposite)

\* C18 witness: an unsatisfied close atom whose close range touches the
\* open range at 0, with the joint strictly between the far ends, got 0.0
C18_Witness ==
    /\ UnsatisfiedJointAtom
    /\ TheAtom = <<"close", "microwave">>
    /\ IsArticulated(TheObject, "close")
    /\ TheTarget = <<-JointOne, 0>>
    /\ TheOpposite = <<0, JointOne>>
    /\ TheObject.joint_states = <<JointOne \div 2>>
    /\ last.out = Return(0)

\* C19: for an unsatisfied joint atom whose object is not articulated, has
\* no joints, has no articulation properties or lacks the target or the
\* opposite range table, the call returns the value 0.0 and raises nothing
C19_NotArticulatedYieldsZero ==
    (UnsatisfiedJointAtom /\ ~IsArticulated(TheObject, lower(TheAtom[1]))) =>
        last.out = Return(0)

\* C19 witness: an unsatisfied open atom on an object that is not an
\* ArticulatedObject, although it has a joint and both tables, got 0.0
C19_Witness ==
    /\ UnsatisfiedJointAtom
    /\ lower(TheAtom[1]) = "open"
    /\ ~TheObject.is_ArticulatedObject
    /\ TheObject.joint_states # <<>>
    /\ {"default_open_ranges", "default_close_ranges"} \subseteq TheObject.art_keys
    /\ last.out = Return(0)

(***************************************************************************)
(* Placement: _setup_placement_initializer, _add_placement_initializer     *)
(* and the sampling stages of _reset_internal                              *)
(***************************************************************************)
MaxAtoms == 2

MaxBuilds == 2

\* the keys of self.objects_dict: the movable objects
objects_dict == {"cube", "bowl"}

\* the keys of self.fixtures_dict
fixtures_dict == {"microwave", "stove"}

\* self.parsed_problem["regions"]: region name -> its "target"; the region
\* called "bowl" shares its name with a movable object
regions ==
    [r \in {"main_table_region", "microwave_region", "bowl"} |->
        IF r = "microwave_region" THEN "microwave" ELSE "main_table"]

\* the keys of self.object_sites_dict: the regions that have a site object
object_sites_dict == {"main_table_region", "microwave_region"}

\* the keys of mapping_inv: every fixture and object name of the problem
\* file (the table is a fixture of the file without an entry in fixtures_dict)
mapping_inv == objects_dict \cup fixtures_dict \cup {"main_table"}

\* the keys of self.object_states_dict (lines 453-489)
object_states_dict == objects_dict \cup fixtures_dict \cup object_sites_dict

\* hasattr(self.object_states_dict[name], "set_joint"): the states of objects
\* and fixtures have the method, the states of sites do not
has_set_joint(name) == name \in objects_dict \cup fixtures_dict

\* the keys of get_object(name).object_properties["articulation"], or no
\* such entry (<<>>)
articulation(name) ==
    CASE name = "microwave" -> <<{"default_open_ranges", "default_close_ranges"}>>
      [] name = "stove" -> <<{"default_turnon_ranges", "default_turnoff_ranges"}>>
      [] OTHER -> <<>>

\* every name an atom can resolve to
KnownNames ==
    objects_dict \cup fixtures_dict \cup DOMAIN regions \cup object_sites_dict

\* the atoms of the initial states: one for each branch of the
\* classification, and atoms with names that resolve to nothing
InitialAtoms ==
    { <<"on", "cube", "bowl">>, <<"on", "bowl", "cube">>,
      <<"in", "cube", "microwave_region">>, <<"in", "cube", "main_table_region">>,
      <<"on", "cube", "microwave_region">>, <<"on", "microwave", "main_table_region">>,
      <<"on", "cube", "main_table_region">>, <<"on", "bowl", "main_table_region">>,
      <<"open", "microwave">>, <<"close", "microwave">>, <<"turnon", "stove">>,
      <<"open", "cube">>, <<"stack", "cube", "bowl">>,
      <<"on", "cube", "nowhere">>, <<"on", "ghost", "main_table_region">>,
      <<"on", "ghost", "cube">>, <<"in", "cube", "bowl">>, <<"open", "ghost">>,
      <<"in", "cube", "nowhere">> }

InitialStates == UNION {[1..n -> InitialAtoms] : n \in 0..MaxAtoms}

\* goals over known names, and a goal atom naming an object that is not there
PlacementGoals ==
    { << <<"on", "cube", "bowl">> >>, << <<"on", "ghost", "bowl">> >> }

\* a sampler: its class, the object it places or sets, the reference of its
\* sample arguments, its state_type and the key of its joint_ranges table
\* ("" where it has none), and the index of the atom it was built from
Sampler(kind, name, reference, state_type, joint_ranges, atom) ==
    [kind |-> kind, name |-> name, reference |-> reference,
     state_type |-> state_type, joint_ranges |-> joint_ranges, atom |-> atom]

\* the joint rule of one loop iteration (lines 869-910): the sampler kind
\* appended, "none", or the KeyError of a missing articulation entry
property_category(state) ==
    IF state[1] \in {"open", "close", "turnon", "turnoff"}
    THEN IF state[2] \in object_states_dict /\ has_set_joint(state[2])
         THEN IF articulation(state[2]) # <<>>
                 /\ ("default_" \o state[1] \o "_ranges") \in articulation(state[2])[1]
              THEN IF state[1] \in {"open", "close"} THEN "OpenCloseSampler"
                                                      ELSE "TurnOnOffSampler"
              ELSE "KeyError"
         ELSE "none"
    ELSE "none"

\* mutant: the region test comes before the movable-object test
category_region_first(state) ==
    IF state[1] = "on" /\ state[3] \in DOMAIN regions
    THEN LET object_name == state[2]
             target_name == regions[state[3]]
         IN  IF target_name \in objects_dict \/ target_name \in fixtures_dict
             THEN "on_sites"
             ELSE IF object_name \in fixtures_dict THEN "MultiRegionRandomSampler"
             ELSE IF target_name \in mapping_inv /\ object_name \in objects_dict
             THEN "RegionSampler"
             ELSE "KeyError"
    ELSE IF state[1] = "on" /\ state[3] \in objects_dict THEN "on_objects"
    ELSE IF state[1] = "in" /\ state[3] \in DOMAIN regions THEN "in_objects"
    ELSE property_category(state)

\* mutant: an on-atom that is not on an object looks its region up untested
category_region_lookup(state) ==
    IF state[1] = "on" /\ state[3] \in objects_dict THEN "on_objects"
    ELSE IF state[1] = "in" /\ state[3] \in DOMAIN regions THEN "in_objects"
    ELSE IF state[1] = "on"
    THEN IF state[3] \notin DOMAIN regions THEN "KeyError"
         ELSE LET object_name == state[2]
                  target_name == regions[state[3]]
              IN  IF target_name \in objects_dict \/ target_name \in fixtures_dict
                  THEN "on_sites"
                  ELSE IF object_name \in fixtures_dict THEN "MultiRegionRandomSampler"
                  ELSE IF target_name \in mapping_inv /\ object_name \in objects_dict
                  THEN "RegionSampler"
                  ELSE "KeyError"
    ELSE property_category(state)

\* one iteration of the loop of lines 818-910: the list the atom is put on
\* (on_objects, in_objects, on_sites), the kind of the sampler appended at
\* once, "none" when no branch matches, or the KeyError of a failed lookup
category(state) ==
    IF state[1] = "on" /\ state[3] \in objects_dict THEN "on_objects"
    ELSE IF state[1] = "in" /\ state[3] \in DOMAIN regions THEN "in_objects"
    ELSE IF state[1] = "on" /\ state[3] \in DOMAIN regions
    THEN LET object_name == state[2]
             target_name == regions[state[3]]
         IN  IF target_name \in objects_dict \/ target_name \in fixtures_dict
             THEN "on_sites"
             ELSE IF object_name \in fixtures_dict THEN "MultiRegionRandomSampler"
             ELSE IF target_name \in mapping_inv /\ object_name \in objects_dict
             THEN "RegionSampler"
             ELSE "KeyError"
    ELSE property_category(state)

\* the indices of the first n atoms whose category is in cats, in order
RECURSIVE atoms_of(_, _, _)
atoms_of(atoms, n, cats) ==
    IF n = 0 THEN <<>>
    ELSE IF category(atoms[n]) \in cats
    THEN Append(atoms_of(atoms, n - 1, cats), n)
    ELSE atoms_of(atoms, n - 1, cats)

\* the lookups made while a conditioned sampler is built (lines 917-918,
\* 937, 954-955) all succeed
conditioned_sampler_ok(state, cat) ==
    /\ state[2] \in objects_dict
    /\ cat \in {"on_sites", "in_objects"} => state[3] \in object_sites_dict

\* mutant: every joint sampler draws from the open table
sampler_of_open_table(atoms, i) ==
    LET state == atoms[i]
        cat == category(state)
    IN  CASE cat = "on_sites" ->
               Sampler("SiteRegionRandomSampler", state[2], regions[state[3]], "", "", i)
          [] cat = "in_objects" ->
               Sampler("InSiteRegionRandomSampler", state[2], regions[state[3]], "", "", i)
          [] cat = "on_objects" ->
               Sampler("ObjectBasedSampler", state[2], state[3], "", "", i)
          [] cat \in {"OpenCloseSampler", "TurnOnOffSampler"} ->
               Sampler(cat, state[2], "", state[1], "default_open_ranges", i)
          [] OTHER -> Sampler(cat, state[2], "", "", "", i)

\* the sampler built from atom i
sampler_of(atoms, i) ==
    LET state == atoms[i]
        cat == category(state)
    IN  CASE cat = "on_sites" ->
               Sampler("SiteRegionRandomSampler", state[2], regions[state[3]], "", "", i)
          [] cat = "in_objects" ->
               Sampler("InSiteRegionRandomSampler", state[2], regions[state[3]], "", "", i)
          [] cat = "on_objects" ->
               Sampler("ObjectBasedSampler", state[2], state[3], "", "", i)
          [] cat \in {"OpenCloseSampler", "TurnOnOffSampler"} ->
               Sampler(cat, state[2], "", state[1], "default_" \o state[1] \o "_ranges", i)
          [] OTHER -> Sampler(cat, state[2], "", "", "", i)

\* the samplers of the indices idx, up to the first one whose lookups fail
samplers_until_error(atoms, idx, cat) ==
    LET bad == {k \in DOMAIN idx : ~conditioned_sampler_ok(atoms[idx[k]], cat)}
        n == IF bad = {} THEN Len(idx) ELSE SetMin(bad) - 1
    IN  [samplers |-> [k \in 1..n |-> sampler_of(atoms, idx[k])], failed |-> bad # {}]

\* _setup_placement_initializer and _add_placement_initializer: the three
\* composite samplers start empty, object_property_initializers keeps what
\* it holds; an exception leaves what was appended before it
add_placement_initializer(atoms, property_initializers) ==
    LET bad == {i \in DOMAIN atoms : category(atoms[i]) = "KeyError"}
        n == IF bad = {} THEN Len(atoms) ELSE SetMin(bad) - 1
        unconditioned ==
            atoms_of(atoms, n, {"MultiRegionRandomSampler", "RegionSampler"})
        properties == atoms_of(atoms, n, {"OpenCloseSampler", "TurnOnOffSampler"})
        on_sites == samplers_until_error(atoms, atoms_of(atoms, n, {"on_sites"}),
                                         "on_sites")
        on_objects == samplers_until_error(atoms, atoms_of(atoms, n, {"on_objects"}),
                                           "on_objects")
        in_objects == samplers_until_error(atoms, atoms_of(atoms, n, {"in_objects"}),
                                           "in_objects")
        loop_failed == bad # {}
        sites_done == ~loop_failed /\ ~on_sites.failed
        objects_done == sites_done /\ ~on_objects.failed
    IN  [placement_initializer |->
             [k \in DOMAIN unconditioned |-> sampler_of(atoms, unconditioned[k])],
         object_property_initializers |->
             property_initializers
             \o [k \in DOMAIN properties |-> sampler_of(atoms, properties[k])],
         conditional_placement_initializer |->
             IF loop_failed THEN <<>>
             ELSE on_sites.samplers \o (IF objects_done THEN in_objects.samplers ELSE <<>>),
         conditional_placement_on_objects_initializer |->
             IF sites_done THEN on_objects.samplers ELSE <<>>,
         out |-> IF objects_done /\ ~in_objects.failed THEN Return(0)
                 ELSE Raise("KeyError")]

\* a composite sampler runs its samplers in append order on top of the
\* objects placed so far; a sampler that is to put its object on a
\* reference object needs that object placed already
RECURSIVE composite_sample(_, _)
composite_sample(samplers, placed) ==
    IF samplers = <<>> THEN [placed |-> placed, out |-> Return(0)]
    ELSE LET sampler == Head(samplers)
         IN  IF sampler.kind = "ObjectBasedSampler"
                /\ sampler.reference \notin {placed[k].name : k \in DOMAIN placed}
             THEN [placed |-> placed, out |-> Raise("UnresolvedReferenceError")]
             ELSE composite_sample(Tail(samplers),
                      Append(placed, [kind |-> sampler.kind, name |-> sampler.name,
                                      atom |-> sampler.atom]))

\* mutant: the samplers that put objects on objects are never run
sample_placements_without_on_objects(joint, unconditioned, conditional, on_objects) ==
    LET joints == [k \in DOMAIN joint |->
                      [kind |-> joint[k].kind, name |-> joint[k].name,
                       atom |-> joint[k].atom]]
        first == composite_sample(unconditioned, joints)
        second == IF first.out.tag = "return"
                  THEN composite_sample(conditional, first.placed) ELSE first
    IN  second

\* mutant: the on-object samplers run before the site and in-region samplers
sample_placements_on_objects_early(joint, unconditioned, conditional, on_objects) ==
    LET joints == [k \in DOMAIN joint |->
                      [kind |-> joint[k].kind, name |-> joint[k].name,
                       atom |-> joint[k].atom]]
        first == composite_sample(unconditioned, joints)
        second == IF first.out.tag = "return"
                  THEN composite_sample(on_objects, first.placed) ELSE first
        third == IF second.out.tag = "return"
                 THEN composite_sample(conditional, second.placed) ELSE second
    IN  third

\* lines 983-1007: the joint samplers, then the three composite samplers,
\* each on top of the placements of the one before
sample_placements(joint, unconditioned, conditional, on_objects) ==
    LET joints == [k \in DOMAIN joint |->
                      [kind |-> joint[k].kind, name |-> joint[k].name,
                       atom |-> joint[k].atom]]
        first == composite_sample(unconditioned, joints)
        second == IF first.out.tag = "return"
                  THEN composite_sample(conditional, first.placed) ELSE first
        third == IF second.out.tag = "return"
                 THEN composite_sample(on_objects, second.placed) ELSE second
    IN  third

\* __init__ has run up to line 102: nothing is loaded yet
PlacementInit ==
    /\ reward_scale = <<One>>
    /\ reward_shaping = TRUE
    /\ goal_state \in PlacementGoals
    /\ previous_distance = <<>>
    /\ scene = SceneOf(PlatePos, 0, [a \in {} |-> FALSE], FALSE)
    /\ evals = 0
    /\ last = Called("init", NoCall, NoCall, <<>>, FALSE)
    /\ initial_state \in InitialStates
    /\ placement_initializer = <<>>
    /\ conditional_placement_initializer = <<>>
    /\ conditional_placement_on_objects_initializer = <<>>
    /\ object_property_initializers = <<>>
    /\ builds = 0
    /\ reset_trace = <<>>

\* the environment is usable: no _load_model has failed
Usable == ~(last.op = "load_model" /\ last.out.tag # "return")

\* _load_model, at construction and again at every hard reset
LoadModel ==
    /\ Usable
    /\ builds < MaxBuilds
    /\ \E plan \in {add_placement_initializer(initial_state,
                                              object_property_initializers)} :
        /\ placement_initializer' = plan.placement_initializer
        /\ conditional_placement_initializer' = plan.conditional_placement_initializer
        /\ conditional_placement_on_objects_initializer' =
               plan.conditional_placement_on_objects_initializer
        /\ object_property_initializers' = plan.object_property_initializers
        /\ last' = Called("load_model", plan.out, NoCall,
                          <<Len(object_property_initializers)>>, FALSE)
    /\ builds' = builds + 1
    /\ reset_trace' = <<>>
    /\ UNCHANGED <<reward_vars, initial_state>>

\* _reset_internal on the loaded model
ResetInternal ==
    /\ Usable
    /\ builds > 0
    /\ \E deterministic_reset \in BOOLEAN :
        \E r \in {reset_internal(previous_distance, deterministic_reset)} :
            \E placed \in {IF r.sample
                           THEN sample_placements(object_property_initializers,
                                    placement_initializer,
                                    conditional_placement_initializer,
                                    conditional_placement_on_objects_initializer)
                           ELSE [placed |-> <<>>, out |-> Return(0)]} :
                /\ previous_distance' = r.prev
                /\ reset_trace' = placed.placed
                /\ last' = Called(IF r.sample THEN "reset" ELSE "deterministic_reset",
                                  placed.out, NoCall, previous_distance, FALSE)
    /\ evals' = 0
    /\ UNCHANGED <<reward_scale, reward_shaping, goal_state, scene, initial_state,
                   placement_initializer, conditional_placement_initializer,
                   conditional_placement_on_objects_initializer,
                   object_property_initializers, builds>>

PlacementNext == LoadModel \/ ResetInternal

PlacementSpec == PlacementInit /\ [][PlacementNext]_vars

(***************************************************************************)
(* Claims about placement (specification PlacementSpec)                    *)
(***************************************************************************)
\* the names an atom refers to
AtomNames(state) == {state[k] : k \in 2..Len(state)}

\* some initial_state or goal_state atom refers to a name that is no
\* fixture, object, region or site
UnresolvedName ==
    \E state \in Range(initial_state) \cup Range(goal_state) :
        ~(AtomNames(state) \subseteq KnownNames)

ModelLoaded == last.op = "load_model"

\* C14 as stated: when an initial_state or goal_state atom refers to an
\* unknown name, scene construction (_load_model) fails
C14_UnknownNameFailsConstruction ==
    (ModelLoaded /\ UnresolvedName) => last.out.tag # "return"

\* the samplers the last _load_model appended to object_property_initializers
AppendedPropertyInitializers ==
    SubSeq(object_property_initializers, last.before[1] + 1,
           Len(object_property_initializers))

\* the five placement groups after _load_model: the samplers of each
PlacementGroups ==
    [unconditioned |-> Range(placement_initializer),
     site_conditioned |->
         {x \in Range(conditional_placement_initializer) :
             x.kind = "SiteRegionRandomSampler"},
     in_region |->
         {x \in Range(conditional_placement_initializer) :
             x.kind = "InSiteRegionRandomSampler"},
     on_object |-> Range(conditional_placement_on_objects_initializer),
     joint_property |-> Range(AppendedPropertyInitializers)]

\* the places (list, position) where a sampler built from atom i stands
SamplerPlaces(i) ==
    {<<"unconditioned", k>> : k \in {k \in DOMAIN placement_initializer :
                                        placement_initializer[k].atom = i}}
    \cup {<<"conditional", k>> : k \in {k \in DOMAIN conditional_placement_initializer :
                                        conditional_placement_initializer[k].atom = i}}
    \cup {<<"on_object", k>> :
            k \in {k \in DOMAIN conditional_placement_on_objects_initializer :
                     conditional_placement_on_objects_initializer[k].atom = i}}
    \cup {<<"joint_property", k>> : k \in {k \in DOMAIN AppendedPropertyInitializers :
                                        AppendedPropertyInitializers[k].atom = i}}

\* C20: after _load_model every initial_state atom has yielded at most one
\* sampler, every sampler stands in the group of its kind, and when
\* _load_model succeeded every atom on(obj, x) with x a movable object has
\* its one sampler in the on-object group, also when x names a region
C20_FirstMatchWins ==
    ModelLoaded =>
        /\ \A i \in DOMAIN initial_state : Cardinality(SamplerPlaces(i)) <= 1
        /\ \A x \in PlacementGroups.unconditioned :
               x.kind \in {"MultiRegionRandomSampler", "RegionSampler"}
        /\ \A x \in Range(conditional_placement_initializer) :
               x.kind \in {"SiteRegionRandomSampler", "InSiteRegionRandomSampler"}
        /\ \A x \in PlacementGroups.on_object : x.kind = "ObjectBasedSampler"
        /\ \A x \in PlacementGroups.joint_property :
               x.kind \in {"OpenCloseSampler", "TurnOnOffSampler"}
        /\ last.out.tag = "return" =>
               \A i \in DOMAIN initial_state :
                   (initial_state[i][1] = "on" /\ initial_state[i][3] \in objects_dict) =>
                       \E k \in DOMAIN conditional_placement_on_objects_initializer :
                           /\ SamplerPlaces(i) = {<<"on_object", k>>}
                           /\ conditional_placement_on_objects_initializer[k].reference
                                  = initial_state[i][3]

\* C20 witness: on(cube, bowl), where bowl is a movable object and also a
\* region name, became the one on-object sampler, and the bowl's own atom
\* became the one unconditioned sampler
C20_Witness ==
    /\ ModelLoaded
    /\ last.out.tag = "return"
    /\ initial_state = << <<"on", "cube", "bowl">>, <<"on", "bowl", "main_table_region">> >>
    /\ "bowl" \in DOMAIN regions
    /\ conditional_placement_on_objects_initializer
           = <<Sampler("ObjectBasedSampler", "cube", "bowl", "", "", 1)>>
    /\ placement_initializer = <<Sampler("RegionSampler", "bowl", "", "", "", 2)>>
    /\ conditional_placement_initializer = <<>>
    /\ object_property_initializers = <<>>

\* objects a and b are each put on the other, and no other sampler places
\* either of them
DependOnEachOther(a, b) ==
    /\ a # b
    /\ \E x, y \in Range(conditional_placement_on_objects_initializer) :
           /\ x.name = a /\ x.reference = b
           /\ y.name = b /\ y.reference = a
    /\ \A x \in Range(conditional_placement_on_objects_initializer) :
           /\ x.name = a => x.reference = b
           /\ x.name = b => x.reference = a
    /\ \A x \in Range(placement_initializer) \cup Range(conditional_placement_initializer) :
           x.name \notin {a, b}

StageOf(kind) ==
    CASE kind \in {"OpenCloseSampler", "TurnOnOffSampler"} -> 1
      [] kind \in {"MultiRegionRandomSampler", "RegionSampler"} -> 2
      [] kind \in {"SiteRegionRandomSampler", "InSiteRegionRandomSampler"} -> 3
      [] OTHER -> 4

\* the number of samplers of the stages before the on-object stage
EarlierStageSamplers ==
    Len(object_property_initializers) + Len(placement_initializer)
    + Len(conditional_placement_initializer)

\* C21: in a sampling reset the samplers run stage by stage (joint
\* properties, unconditioned, site-conditioned and in-region, on-object)
\* whatever the order of the atoms; an on-object sampler runs only after
\* every sampler of the earlier stages has run, so the reset fails only
\* when the reference of an on-object sampler is placed by no earlier-stage
\* sampler and no on-object sampler before it; without a failure every
\* sampler has run
C21_StagesRunInOrder ==
    last.op = "reset" =>
        /\ \A j, k \in DOMAIN reset_trace :
               j < k => StageOf(reset_trace[j].kind) <= StageOf(reset_trace[k].kind)
        /\ \A k \in DOMAIN reset_trace :
               StageOf(reset_trace[k].kind) = 4 =>
                   Cardinality({j \in 1..(k - 1) : StageOf(reset_trace[j].kind) < 4})
                       = EarlierStageSamplers
        /\ last.out.tag = "return" =>
               Len(reset_trace) = EarlierStageSamplers
                                  + Len(conditional_placement_on_objects_initializer)
        /\ last.out.tag # "return" =>
               \E k \in DOMAIN conditional_placement_on_objects_initializer :
                   conditional_placement_on_objects_initializer[k].reference \notin
                       {x.name : x \in Range(placement_initializer)
                                       \cup Range(conditional_placement_initializer)}
                       \cup {conditional_placement_on_objects_initializer[j].name :
                               j \in 1..(k - 1)}

\* C21 witness: on(bowl, cube) is declared before the site atom that
\* places the cube, and the reset placed the cube first and the bowl last
C21_Witness ==
    /\ last.op = "reset"
    /\ last.out.tag = "return"
    /\ initial_state = << <<"on", "bowl", "cube">>, <<"on", "cube", "microwave_region">> >>
    /\ Len(reset_trace) = 2
    /\ reset_trace[1] = [kind |-> "SiteRegionRandomSampler", name |-> "cube", atom |-> 2]
    /\ reset_trace[2] = [kind |-> "ObjectBasedSampler", name |-> "bowl", atom |-> 1]

JointPredicates == {"open", "close", "turnon", "turnoff"}

\* the last _load_model appended exactly one joint-value sampler for atom
\* i: of the class of its predicate, for its object, over the table named
\* after its predicate
JointSamplerRegistered(i) ==
    LET state == initial_state[i]
        mine == {k \in DOMAIN AppendedPropertyInitializers :
                    AppendedPropertyInitializers[k].atom = i}
    IN  /\ Cardinality(mine) = 1
        /\ \A k \in mine :
               LET x == AppendedPropertyInitializers[k]
               IN  /\ x.kind = (IF state[1] \in {"open", "close"}
                                THEN "OpenCloseSampler" ELSE "TurnOnOffSampler")
                   /\ x.name = state[2]
                   /\ x.state_type = state[1]
                   /\ x.joint_ranges = "default_" \o state[1] \o "_ranges"

\* the object of the atom has a state with set_joint
HasJointState(state) == state[2] \in object_states_dict /\ has_set_joint(state[2])

\* the object of the atom has the range table of the atom's predicate
HasRangeTable(state) ==
    /\ articulation(state[2]) # <<>>
    /\ ("default_" \o state[1] \o "_ranges") \in articulation(state[2])[1]

Unmatched(state) ==
    \/ state[1] \notin {"on", "in"} \cup JointPredicates
    \/ state[1] = "on" /\ state[3] \notin objects_dict \cup DOMAIN regions
    \/ state[1] = "in" /\ state[3] \notin DOMAIN regions

\* C23: after _load_model an initial_state atom that matches no
\* classification rule has no sampler in any group, and _load_model raises
\* only when some atom did match a rule: unmatched atoms alone build an
\* empty plan without an error
C23_UnmatchedAtomIgnored ==
    ModelLoaded =>
        /\ \A i \in DOMAIN initial_state :
               Unmatched(initial_state[i]) => SamplerPlaces(i) = {}
        /\ last.out.tag # "return" =>
               \E i \in DOMAIN initial_state : ~Unmatched(initial_state[i])
        /\ (\A i \in DOMAIN initial_state : Unmatched(initial_state[i])) =>
               /\ placement_initializer = <<>>
               /\ conditional_placement_initializer = <<>>
               /\ conditional_placement_on_objects_initializer = <<>>
               /\ AppendedPropertyInitializers = <<>>

\* C23 witness: stack(cube, bowl) and on(cube, nowhere) were read by a
\* _load_model that returned with every group empty
C23_Witness ==
    /\ ModelLoaded
    /\ last.out.tag = "return"
    /\ initial_state = << <<"stack", "cube", "bowl">>, <<"on", "cube", "nowhere">> >>
    /\ placement_initializer = <<>>
    /\ conditional_placement_initializer = <<>>
    /\ conditional_placement_on_objects_initializer = <<>>
    /\ object_property_initializers = <<>>

\* the atom has a placement implication: it matched a rule that builds a
\* sampler
PlacementRelevant(state) == category(state) \notin {"none", "KeyError"}

\* C24 as stated: after any number of successful _load_model calls the plan
\* holds exactly one sampler per placement-relevant initial_state atom, and
\* object_property_initializers has one entry per open/close/turnon/turnoff
\* atom that registered one
C24_PlanIdempotentAcrossRebuilds ==
    (ModelLoaded /\ last.out.tag = "return") =>
        /\ Len(placement_initializer) + Len(conditional_placement_initializer)
           + Len(conditional_placement_on_objects_initializer)
           + Len(object_property_initializers)
               = Cardinality({i \in DOMAIN initial_state :
                                 PlacementRelevant(initial_state[i])})
        /\ Len(object_property_initializers)
               = Cardinality({i \in DOMAIN initial_state :
                                 /\ initial_state[i][1] \in JointPredicates
                                 /\ PlacementRelevant(initial_state[i])})

(***************************************************************************)
(* Further claims about the episode (specification Spec)                   *)
(***************************************************************************)
\* C25: a reward() call (directly or inside step) on which the success
\* check is true, or with shaping disabled, makes no dense evaluation and
\* leaves previous_distance as it was, set or unset; a call without success
\* and with shaping makes exactly the dense evaluation, which with a
\* non-empty goal stores the distance it computed
C25_RewardTouchesDistanceOnlyWhenShaping ==
    last.op \in {"step", "reward"} =>
        /\ (check_success(scene) \/ ~reward_shaping) =>
               /\ last.dense = NoCall
               /\ previous_distance = last.before
        /\ (~check_success(scene) /\ reward_shaping) =>
               /\ last.dense # NoCall
               /\ (DenseReturned /\ goal_state # <<>>) =>
                      previous_distance = <<GoalDistance(goal_state, scene)>>

\* C25 witness: a successful step with shaping enabled, in a scene whose
\* goal distance differs from the stored one, left the stored one in place
C25_Witness ==
    /\ last.op = "step"
    /\ check_success(scene)
    /\ reward_shaping
    /\ goal_state # <<>>
    /\ last.before # <<>>
    /\ GoalDistance(goal_state, scene) # last.before[1]
    /\ last.dense = NoCall
    /\ previous_distance = last.before

\* the distance stored before the last evaluation minus the distance the
\* last evaluation computed
DistanceDecrease == last.before[1] - GoalDistance(goal_state, scene)

\* C26 as stated: after every dense evaluation with a non-empty goal
\* previous_distance is the distance that evaluation computed, and an
\* evaluation that finds the distance below the stored one returns the
\* difference of the two
C26_ReturnAfterRegressionRewarded ==
    (DenseReturned /\ goal_state # <<>>) =>
        /\ previous_distance = <<GoalDistance(goal_state, scene)>>
        /\ (last.before # <<>> /\ DistanceDecrease > 0) =>
               last.dense.val = DistanceDecrease

\* C26 amended: after every dense evaluation with a non-empty goal
\* previous_distance is the distance that evaluation computed, also when
\* the value returned was clipped or snapped to 0; the value returned is
\* fixed by the stored distance, the computed distance and the scale:
\* the difference times the scale, clipped to [0, 1], and 0 below 1e-3; it
\* is the difference itself when the scale is None or 1.0 and the
\* difference is at least 1e-3
C26_StoredDistanceIsLastEvaluated ==
    (DenseReturned /\ goal_state # <<>>) =>
        /\ previous_distance = <<GoalDistance(goal_state, scene)>>
        /\ last.before # <<>> =>
               LET scaled == IF reward_scale = <<>> THEN DistanceDecrease
                             ELSE (DistanceDecrease * reward_scale[1]) \div One
                   clipped == IF scaled < 0 THEN 0 ELSE IF scaled > One THEN One
                              ELSE scaled
               IN  /\ last.dense.val = IF clipped < Eps THEN 0 ELSE clipped
                   /\ (reward_scale \in {<<>>, <<One>>} /\ DistanceDecrease >= Eps) =>
                          last.dense.val = DistanceDecrease

\* C26 witness: a step on which the distance went up returned 0.0 from its
\* dense evaluation and stored the larger distance in place of the old one
C26_Witness ==
    /\ last.op = "step"
    /\ DenseReturned
    /\ goal_state # <<>>
    /\ last.before # <<>>
    /\ DistanceDecrease < 0
    /\ last.dense.val = 0
    /\ previous_distance = <<GoalDistance(goal_state, scene)>>
    /\ previous_distance # last.before

\* C27: the done flag a step returns is the success check of the scene
\* after the step, whatever done flag the base class computed
C27_DoneIsSuccessCheck ==
    last.op = "step" =>
        /\ last.done # <<>>
        /\ last.done[1].returned = check_success(scene)

\* C27 witness: the base class reported done (horizon reached) on a step
\* without success, and the step returned done = false
C27_Witness ==
    /\ last.op = "step"
    /\ last.done # <<>>
    /\ last.done[1].base
    /\ ~check_success(scene)
    /\ ~last.done[1].returned

====
